---- MODULE Spec2Model ----
(***************************************************************************)
(* PyBox, f2py/ODE_solver.py: run_simulation and its two closures,         *)
(* dydt_func and jacobian.                                                 *)
(*                                                                         *)
(* Times are whole seconds (the values the module documents, 3600.0 and    *)
(* 100.0, are integer-valued floats, on which +, < and int(a/b) are exact).*)
(* Concentrations are integers in units of 5.0e8 molecules/cc, so that the *)
(* ppb-to-molecules/cc factor 2.55e+10 is the integer 51.                  *)
(* Python sequences are 0-based: a state vector is a function on           *)
(* 0..num_species-1 and y_matrix a function on 0..number_steps-1.          *)
(* The Assimulo solver and the f2py kernels are outside the file: the      *)
(* solver is a nondeterministic caller of the two closures that returns a  *)
(* trajectory or raises, the kernels are uninterpreted pure functions.     *)
(***************************************************************************)
EXTENDS Integers, Sequences, FiniteSets, TLC

VARIABLES
    \* arguments of run_simulation (closed over by dydt_func and jacobian)
    start_time, save_output, temp, H2O, RO2_indices, input_dict,
    simulation_time, batch_step,
    \* locals of run_simulation
    pc, error, num_species, y0, total_time, t_array, time_step,
    number_steps, y_matrix, y_output, saved,
    \* the solver's calls into the closures during the running batch
    rhs_called, last_call

args == <<start_time, save_output, temp, H2O, RO2_indices, input_dict,
          simulation_time, batch_step>>
locals == <<pc, error, num_species, y0, total_time, t_array, time_step,
            number_steps, y_matrix, y_output, saved>>
vars == <<args, locals, rhs_called, last_call>>

----------------------------------------------------------------------------
(* Bounds of the model *)

MaxHorizon == 3
MaxBatch == 2

StartTimes == {0, 7}
PpbValues == {2}
Temperatures == {288}
WaterValues == {4}

(* ppb-to-molecules/cc, in units of 5.0e8 molecules/cc *)
Cfactor == 51

SpeciesNames == {"APINENE", "PINONIC"}

(* The state vectors the solver works with: its internal estimates and the *)
(* samples of the trajectory it returns.                                   *)
StateVectors(n) == [0..(n - 1) -> {0, Cfactor}]

----------------------------------------------------------------------------
(* Python indexing of a sequence of length n: i in -n..n-1, negative       *)
(* indices count from the end, anything else raises IndexError.            *)
InRange(i, n) == -n <= i /\ i < n
PyIndex(i, n) == IF i < 0 THEN n + i ELSE i

(* species_dict2array as the parser may hand it over: the index of         *)
(* APINENE is right, negative, past the end, or missing.                   *)
Dict2ArrayChoices ==
    {[s \in SpeciesNames |-> IF s = "APINENE" THEN i ELSE 1] : i \in {0, -1, 2}}
        \cup {[s \in {"PINONIC"} |-> 1]}

(* RO2_indices as the parser may hand it over. *)
RO2Choices == {<<>>, <<0>>, <<1>>, <<0, 1>>, <<-1>>, <<2>>}

InputDicts ==
    [species_dict : {SpeciesNames},
     species_dict2array : Dict2ArrayChoices,
     species_initial_conc : [{"APINENE"} -> PpbValues],
     equations : {1}]

----------------------------------------------------------------------------
(* The f2py kernels and numpy.multiply: pure functions of their arguments, *)
(* kept uninterpreted (a result is the term that names its arguments).     *)
evaluate_rates_fortran(ro2, h2o, tmp, tod) == <<"rates", ro2, h2o, tmp, tod>>
reactants_fortran(y) == <<"reactants", y>>
numpy_multiply(a, b) == <<"multiply", a, b>>
loss_gain_fortran(r) == <<"loss_gain", r>>
jacobian_fortran(r, y) == <<"jacobian", r, y>>

----------------------------------------------------------------------------
(* dydt_func and jacobian *)

Size(y) == Cardinality(DOMAIN y)

(* y[RO2_indices] raises IndexError unless every index is in range *)
IndicesInRange(y, idx) == \A k \in 1..Len(idx) : InRange(idx[k], Size(y))

(* the index list read as 1-based *)
FancyIndex_OneBased(y, idx) ==
    [k \in 1..Len(idx) |-> y[PyIndex(idx[k] - 1, Size(y))]]

(* y[RO2_indices]: the selected entries, in the order of the index list *)
FancyIndex(y, idx) == [k \in 1..Len(idx) |-> y[PyIndex(idx[k], Size(y))]]

RECURSIVE numpy_sum(_)
numpy_sum(s) == IF s = <<>> THEN 0 ELSE Head(s) + numpy_sum(Tail(s))

(* the time of day taken from the elapsed time of the run *)
time_of_day_seconds_Elapsed(t) == start_time + total_time + t

time_of_day_seconds(t) == start_time + t

RO2(y) == numpy_sum(FancyIndex(y, RO2_indices))

rates(t, y) == evaluate_rates_fortran(RO2(y), H2O, temp, time_of_day_seconds(t))

dydt_func(t, y) ==
    loss_gain_fortran(numpy_multiply(reactants_fortran(y), rates(t, y)))

jacobian(t, y) == jacobian_fortran(rates(t, y), y)

----------------------------------------------------------------------------
(* run_simulation *)

NoCall == [fn |-> "none"]

Init ==
    /\ start_time \in StartTimes
    /\ save_output \in BOOLEAN
    /\ temp \in Temperatures
    /\ H2O \in WaterValues
    /\ RO2_indices \in RO2Choices
    /\ input_dict \in InputDicts
    /\ simulation_time \in 1..MaxHorizon
    /\ batch_step \in 1..MaxBatch
    /\ pc = "Setup"
    /\ error = "none"
    /\ num_species = 0
    /\ y0 = <<>>
    /\ total_time = 0
    /\ t_array = <<>>
    /\ time_step = 0
    /\ number_steps = 0
    /\ y_matrix = <<>>
    /\ y_output = <<>>
    /\ saved = <<>>
    /\ rhs_called = FALSE
    /\ last_call = NoCall

species_dict2array == input_dict.species_dict2array
species_initial_conc == input_dict.species_initial_conc

(* the loop of lines 155-156 over the species still to be assigned *)
RECURSIVE PopulateY0(_, _)
PopulateY0(y, keys) ==
    IF keys = {} THEN y
    ELSE LET specie == CHOOSE k \in keys : TRUE
             i == PyIndex(species_dict2array[specie], Size(y))
         IN PopulateY0([y EXCEPT ![i] = species_initial_conc[specie] * Cfactor],
                       keys \ {specie})

(* int(simulation_time/batch_step) *)
NumberSteps(horizon, step) == horizon \div step

(* numpy.zeros((rows, columns)) *)
numpy_zeros(rows, columns) == [r \in 0..(rows - 1) |-> [c \in 0..(columns - 1) |-> 0]]

(* lines 139-179; y0[...] = ... raises KeyError for a specie without an    *)
(* index and IndexError for an index outside the list                      *)
Setup ==
    /\ pc = "Setup"
    /\ LET n == Cardinality(input_dict.species_dict)
           keys == DOMAIN species_initial_conc
       IN IF \E k \in keys : k \notin DOMAIN species_dict2array
          THEN /\ pc' = "Aborted"
               /\ error' = "KeyError"
               /\ UNCHANGED <<num_species, y0, number_steps, y_matrix>>
          ELSE IF \E k \in keys : ~InRange(species_dict2array[k], n)
          THEN /\ pc' = "Aborted"
               /\ error' = "IndexError_y0"
               /\ UNCHANGED <<num_species, y0, number_steps, y_matrix>>
          ELSE /\ num_species' = n
               /\ y0' = PopulateY0([i \in 0..(n - 1) |-> 0], keys)
               /\ number_steps' = NumberSteps(simulation_time, batch_step)
               /\ y_matrix' = numpy_zeros(number_steps', n)
               /\ pc' = "NotStarted"
               /\ UNCHANGED error
    /\ total_time' = 0
    /\ t_array' = <<>>
    /\ time_step' = 0
    /\ UNCHANGED <<args, y_output, saved, rhs_called, last_call>>

AtLoopHead == pc \in {"NotStarted", "BatchComplete"}

(* y_output[-1,:] *)
LastSample(trajectory) == trajectory[Len(trajectory)]

(* the next batch restarted from the first sample of the trajectory *)
NextInitialState_First(trajectory) == trajectory[1]

(* y0 = y_output[-1,:] *)
NextInitialState(trajectory) == LastSample(trajectory)

(* lines 184-214: the loop test holds, the problem is built on y0 *)
StartBatch ==
    /\ AtLoopHead
    /\ total_time < simulation_time
    /\ y0' = IF total_time = 0 THEN y0 ELSE NextInitialState(y_output)
    /\ pc' = "BatchRunning"
    /\ rhs_called' = FALSE
    /\ UNCHANGED <<args, error, num_species, total_time, t_array, time_step,
                   number_steps, y_matrix, y_output, saved, last_call>>

(* the failure of simulate caught, the matrix saved all the same *)
SimulateRaises_Saves ==
    /\ pc = "BatchRunning"
    /\ pc' = "Aborted"
    /\ error' = "CVodeError"
    /\ saved' = IF save_output THEN <<y_matrix>> ELSE <<>>
    /\ UNCHANGED <<args, num_species, y0, total_time, t_array, time_step,
                   number_steps, y_matrix, y_output, rhs_called, last_call>>

(* line 216, exp_sim.simulate raises: nothing in run_simulation catches it *)
SimulateRaises ==
    /\ pc = "BatchRunning"
    /\ pc' = "Aborted"
    /\ error' = "CVodeError"
    /\ UNCHANGED <<args, num_species, y0, total_time, t_array, time_step,
                   number_steps, y_matrix, y_output, saved, rhs_called, last_call>>

(* the solver calls a closure at offset t with its estimate y; an index    *)
(* of RO2_indices out of range raises inside the closure and simulate      *)
(* raises in turn                                                          *)
Call(fn, t, y, result) ==
    /\ pc = "BatchRunning"
    /\ IF IndicesInRange(y, RO2_indices)
       THEN /\ last_call' = [fn |-> fn, t |-> t, y |-> y, result |-> result]
            /\ rhs_called' = TRUE
            /\ UNCHANGED <<pc, error>>
       ELSE /\ pc' = "Aborted"
            /\ error' = "CVodeError"
            /\ UNCHANGED <<rhs_called, last_call>>
    /\ UNCHANGED <<args, num_species, y0, total_time, t_array, time_step,
                   number_steps, y_matrix, y_output, saved>>

DydtCall ==
    \E t \in 0..batch_step, y \in StateVectors(num_species) :
        Call("dydt_func", t, y, dydt_func(t, y))

JacobianCall ==
    \E t \in 0..batch_step, y \in StateVectors(num_species) :
        Call("jacobian", t, y, jacobian(t, y))

(* total_time=batch_step *)
AdvanceTime_Assign(elapsed, step) == step

(* total_time+=batch_step *)
AdvanceTime(elapsed, step) == elapsed + step

(* y_matrix[time_step-1,:]=row *)
StoreRow_Previous(matrix, index, row) ==
    [matrix EXCEPT ![PyIndex(index - 1, Size(matrix))] = row]

(* y_matrix[time_step,:]=row *)
StoreRow(matrix, index, row) == [matrix EXCEPT ![index] = row]

(* lines 216-222: simulate returns the trajectory of the batch, from y0 to *)
(* some final state; the row of the batch is stored, or the store raises   *)
(* IndexError when time_step is not a row of y_matrix                      *)
CompleteBatch ==
    /\ pc = "BatchRunning"
    /\ rhs_called
    /\ \E final \in StateVectors(num_species) : y_output' = <<y0, final>>
    /\ total_time' = AdvanceTime(total_time, batch_step)
    /\ t_array' = Append(t_array, total_time')
    /\ IF time_step < number_steps
       THEN /\ y_matrix' = StoreRow(y_matrix, time_step, LastSample(y_output'))
            /\ time_step' = time_step + 1
            /\ pc' = "BatchComplete"
            /\ UNCHANGED error
       ELSE /\ pc' = "Aborted"
            /\ error' = "IndexError_y_matrix"
            /\ UNCHANGED <<y_matrix, time_step>>
    /\ UNCHANGED <<args, num_species, y0, number_steps, saved, rhs_called, last_call>>

(* lines 184 and 224-231: the loop test fails, the output is saved *)
Finish ==
    /\ AtLoopHead
    /\ ~(total_time < simulation_time)
    /\ saved' = IF save_output THEN <<y_matrix>> ELSE <<>>
    /\ pc' = "Finished"
    /\ UNCHANGED <<args, error, num_species, y0, total_time, t_array, time_step,
                   number_steps, y_matrix, y_output, rhs_called, last_call>>

Next ==
    \/ Setup
    \/ StartBatch
    \/ DydtCall
    \/ JacobianCall
    \/ SimulateRaises
    \/ CompleteBatch
    \/ Finish

Spec == Init /\ [][Next]_vars

----------------------------------------------------------------------------
(* What the solver handed to the rate kernel in the last call *)

RatesOf(call) ==
    IF call.fn = "dydt_func" THEN call.result[2][3] ELSE call.result[2]
PeroxyPassed(call) == RatesOf(call)[2]
TimeOfDayPassed(call) == RatesOf(call)[5]

Called == last_call.fn # "none"

----------------------------------------------------------------------------
(* C1: with every solver call succeeding, the run executes exactly         *)
(* floor(simulation_time / batch_step) batches and commits that many rows, *)
(* and the row index written in an iteration is below the pre-sized count. *)
C1_ExactRowCount ==
    /\ pc = "BatchRunning" => time_step < number_steps
    /\ error # "IndexError_y_matrix"
    /\ pc = "Finished" =>
          /\ time_step = simulation_time \div batch_step
          /\ Len(t_array) = simulation_time \div batch_step

----------------------------------------------------------------------------
ConfiguredY0 ==
    [i \in 0..(Cardinality(input_dict.species_dict) - 1) |->
        IF \E k \in DOMAIN species_initial_conc :
              PyIndex(species_dict2array[k], Cardinality(input_dict.species_dict)) = i
        THEN species_initial_conc[
                 CHOOSE k \in DOMAIN species_initial_conc :
                     PyIndex(species_dict2array[k],
                             Cardinality(input_dict.species_dict)) = i] * Cfactor
        ELSE 0]

(* C2: the first batch starts from the configured initial concentrations,  *)
(* every later batch from the row committed at the end of the batch before *)
(* it, and a batch starts only when all rows before it are committed.      *)
C2_StateCarryOver ==
    pc = "BatchRunning" =>
        /\ Len(t_array) = time_step
        /\ total_time = time_step * batch_step
        /\ IF time_step = 0
           THEN y0 = ConfiguredY0
           ELSE /\ (time_step - 1) \in DOMAIN y_matrix
                /\ y0 = y_matrix[time_step - 1]
                /\ y0 = y_output[Len(y_output)]

C2_Witness ==
    /\ pc = "BatchRunning"
    /\ time_step = 2
    /\ y0 # ConfiguredY0
    /\ y_matrix[0] # y_matrix[1]

----------------------------------------------------------------------------
(* C3: in batch k, a call at solver offset t passes to the rate kernel the *)
(* time of day start_time + (k-1)*batch_step + t.                          *)
C3_TimeOfDayFollowsElapsedTime ==
    (pc = "BatchRunning" /\ rhs_called) =>
        TimeOfDayPassed(last_call) = start_time + time_step * batch_step + last_call.t

----------------------------------------------------------------------------
(* C4: with a horizon that is no multiple of the batch duration the run    *)
(* still finishes normally, the last executed batch committed, with the    *)
(* final elapsed time T in simulation_time <= T < simulation_time +        *)
(* batch_step.                                                             *)
C4_NonMultipleFinishes ==
    simulation_time % batch_step # 0 =>
        /\ error # "IndexError_y_matrix"
        /\ pc = "Finished" =>
              /\ simulation_time <= total_time
              /\ total_time < simulation_time + batch_step
              /\ Len(t_array) = time_step

----------------------------------------------------------------------------
SolverFailed == pc = "Aborted" /\ error = "CVodeError"

(* C5: when simulate raises in batch k the run is aborted: no row is       *)
(* committed for batch k, the rows of the batches before it are unchanged, *)
(* the elapsed time is not advanced, no later batch starts and no output   *)
(* is saved.                                                               *)
C5_FailedBatchCommitsNothing ==
    /\ [](SolverFailed => (saved = <<>> /\ Len(t_array) = time_step
                             /\ total_time = time_step * batch_step))
    /\ [][SolverFailed' =>
             /\ y_matrix' = y_matrix
             /\ total_time' = total_time
             /\ t_array' = t_array
             /\ time_step' = time_step
             /\ saved' = saved
             /\ y_output' = y_output]_vars
    /\ [][pc = "Aborted" => pc' = "Aborted"]_vars

C5_Witness ==
    /\ SolverFailed
    /\ time_step = 2
    /\ save_output
    /\ y_matrix[1] # y_matrix[2]

----------------------------------------------------------------------------
ValidIndex(i) == i \in 0..(Cardinality(input_dict.species_dict) - 1)

ConfigConsistent ==
    /\ \A k \in DOMAIN species_initial_conc :
          k \in DOMAIN species_dict2array /\ ValidIndex(species_dict2array[k])
    /\ \A k \in 1..Len(RO2_indices) : ValidIndex(RO2_indices[k])

(* C6: an inconsistent configuration (an initial-concentration species     *)
(* without a valid index, a peroxy index outside 0..num_species-1) is      *)
(* reported by the setup: no batch runs and no closure is called.          *)
C6_InconsistencyCaughtAtSetup ==
    ~ConfigConsistent =>
        /\ pc \notin {"BatchRunning", "BatchComplete", "Finished"}
        /\ error # "CVodeError"
        /\ ~Called

----------------------------------------------------------------------------
(* C7: at every loop head total_time = time_step * batch_step and          *)
(* len(t_array) = time_step, and the elapsed time recorded for row i       *)
(* (1-based) is i * batch_step.                                            *)
C7_ElapsedTime ==
    /\ AtLoopHead => (total_time = time_step * batch_step /\ Len(t_array) = time_step)
    /\ \A i \in 1..Len(t_array) : t_array[i] = i * batch_step

C7_Witness ==
    /\ AtLoopHead
    /\ time_step = 3
    /\ t_array = <<1, 2, 3>>

----------------------------------------------------------------------------
ResultNow(call) ==
    IF call.fn = "dydt_func" THEN dydt_func(call.t, call.y)
    ELSE jacobian(call.t, call.y)

(* C8: a call of dydt_func or jacobian changes nothing of the run (its     *)
(* arguments, the time series, the elapsed time, the batch index), and     *)
(* what it returned for (t, y) is what it returns for the same (t, y) at   *)
(* any later point of the run, in any batch.                               *)
C8_ClosuresPure ==
    /\ [](Called => last_call.result = ResultNow(last_call))
    /\ [][(last_call' # last_call /\ Called') => UNCHANGED <<args, locals>>]_vars
    /\ [][UNCHANGED args]_vars

C8_Witness ==
    /\ last_call.fn = "dydt_func"
    /\ pc = "BatchRunning"
    /\ ~rhs_called
    /\ time_step = 2
    /\ start_time # 0
    /\ last_call.result = dydt_func(last_call.t, last_call.y)

----------------------------------------------------------------------------
----------------------------------------------------------------------------
RECURSIVE SumAt(_, _)
SumAt(y, indices) ==
    IF indices = {} THEN 0
    ELSE LET i == CHOOSE j \in indices : TRUE
         IN y[i] + SumAt(y, indices \ {i})

IndexSet == {RO2_indices[k] : k \in 1..Len(RO2_indices)}

ValidSubset ==
    /\ \A i \in IndexSet : ValidIndex(i)
    /\ Cardinality(IndexSet) = Len(RO2_indices)

(* C10: for a valid index subset RO2_indices, the peroxy aggregate passed  *)
(* to the rate kernel by dydt_func and by jacobian is the sum of the       *)
(* entries of the state vector at those indices, 0 for the empty subset.   *)
C10_PeroxyAggregate ==
    (Called /\ ValidSubset) => PeroxyPassed(last_call) = SumAt(last_call.y, IndexSet)

C10_Witness ==
    /\ last_call.fn = "jacobian"
    /\ RO2_indices = <<1>>
    /\ last_call.y[0] = Cfactor
    /\ last_call.y[1] = Cfactor
    /\ PeroxyPassed(last_call) = Cfactor

====
